---------------------------- MODULE Spec2Model ----------------------------
(***************************************************************************)
(* A model of the SKO GeoHydro Portal API: the REST handlers for reports   *)
(* and coordinates over two storage backends, the file-backed server       *)
(* (src/server.js) and the document-store server (src/unnamed/part_000).   *)
(* One behaviour is one run of one of the two server programs.  In Spec    *)
(* and SpecReliable requests are handled one after the other, each handler *)
(* as one action, by a server that has started.  SpecStartup follows the   *)
(* document-store server from the start of its process, SpecConcurrent the *)
(* file-backed server with the handlers of several requests interleaved at *)
(* their awaits.                                                           *)
(***************************************************************************)
EXTENDS Integers, Sequences, FiniteSets

VARIABLES
    backend,     \* which server program runs: "file" or "mongo"
    dirExists,   \* file server: DATA_DIR exists on disk
    files,       \* file server: the content of reports.json and coordinates.json
    db,          \* document store: each collection's documents, in natural (insertion) order
    nextOid,     \* document store: the counter the next ObjectId is generated from
    now,         \* the wall clock in ms, as Date.now() / new Date() read it
    createdLog,  \* history: per collection, the records created since the start, newest first
    last,        \* the request just handled and its response, until the response is sent
    client,      \* document store: the MongoClient of the process, "connecting", "connected" or
                 \* "exited" once process.exit(1) ran ("none" in the file server)
    inflight,    \* file server: the handlers suspended at await writeData, each with the
                 \* number of times it is suspended
    deleted      \* history: per collection, the ids deleted with 200 and not created since

vars == <<backend, dirExists, files, db, nextOid, now, createdLog, last, client, inflight, deleted>>

(***************************************************************************)
(* Bounds of the model.                                                    *)
(***************************************************************************)
MaxClock == 1      \* the clock runs over 0..MaxClock
MaxRecords == 2    \* a create is modelled while the collections together hold fewer records
MaxOids == 2       \* the document store generates at most this many ObjectIds
MaxInflight == 2   \* at most this many handlers are suspended at a time

Coll == {"reports", "coordinates"}

Min(a, b) == IF a < b THEN a ELSE b

(***************************************************************************)
(* JavaScript values of a JSON request body, tagged with their type.       *)
(***************************************************************************)
Undef == [t |-> "undefined"]
Null == [t |-> "null"]
NaN == [t |-> "NaN"]
Str(s) == [t |-> "string", v |-> s]
Num(n) == [t |-> "number", n |-> n]

\* !x of the handlers' validation, and the left side of x || default
Falsy(x) ==
    \/ x.t \in {"undefined", "null", "NaN"}
    \/ x.t = "string" /\ x.v = ""
    \/ x.t = "number" /\ x.n = 0

\* x || d
OrDefault(x, d) == IF Falsy(x) THEN d ELSE x

\* The numeric strings of the model and the number parseFloat reads from each.
NumericStrings == {"0", "44", "-73"}
NumberOf(s) == CASE s = "0" -> 0 [] s = "44" -> 44 [] s = "-73" -> 0 - 73

\* parseFloat(x): a number is itself, a numeric string its number, anything else NaN
ParseFloat(x) ==
    IF x.t = "number" THEN x
    ELSE IF x.t = "string" /\ x.v \in NumericStrings THEN Num(NumberOf(x.v))
    ELSE NaN

\* x ? parseFloat(x) : null
ParseFloatOrNull(x) == IF Falsy(x) THEN Null ELSE ParseFloat(x)

\* JSON.stringify of one value: NaN is written as null
JsonValue(x) == IF x.t = "NaN" THEN Null ELSE x

(***************************************************************************)
(* Date.now().toString() and new Date().toISOString().                     *)
(***************************************************************************)
Digit == <<"0", "1", "2", "3", "4", "5", "6", "7", "8", "9">>

RECURSIVE ToString(_)
ToString(n) == IF n < 10 THEN Digit[n + 1] ELSE ToString(n \div 10) \o Digit[(n % 10) + 1]

\* the millisecond part is three digits; the model's clock stays below one second
Pad3(n) == IF n < 10 THEN "00" \o ToString(n) ELSE IF n < 100 THEN "0" \o ToString(n) ELSE ToString(n)
ToISOString(ms) == "1970-01-01T00:00:00." \o Pad3(ms) \o "Z"

\* A later read of the clock: the same millisecond or the next one.
ClockAfter(t) == t .. Min(t + 1, MaxClock)

(***************************************************************************)
(* Request inputs.                                                         *)
(***************************************************************************)
ReportBody(type, location, coordinates, description, severity, email, phone) ==
    [type |-> type, location |-> location, coordinates |-> coordinates,
     description |-> description, severity |-> severity, email |-> email, phone |-> phone]

ReportBodies ==
    { ReportBody(Str("spill"), Str("River X"), Undef, Str("oil sheen"), Undef, Undef, Undef),
      ReportBody(Str("spill"), Undef, Undef, Undef, Undef, Undef, Undef),
      ReportBody(Str(""), Str("River X"), Undef, Str("oil sheen"), Undef, Undef, Undef) }

CoordinateBody(name, lat, lng, transparency, temperature, pathogens) ==
    [name |-> name, lat |-> lat, lng |-> lng, transparency |-> transparency,
     temperature |-> temperature, conductivity |-> Undef, waterlevel |-> Undef,
     pathogens |-> pathogens, description |-> Undef]

CoordinateBodies ==
    { CoordinateBody(Str("Lake A"), Str("44"), Str("0"), Num(3), Str("warm"), Undef),
      CoordinateBody(Str("Equator"), Num(0), Num(44), Undef, Undef, Undef),
      CoordinateBody(Str("Lake A"), Undef, Str("-73"), Undef, Undef, Undef) }

Bodies(c) == IF c = "reports" THEN ReportBodies ELSE CoordinateBodies

\* req.body.status of a PUT
StatusInputs == {Undef, Str("reviewed"), Str("done")}

\* The n-th ObjectId the document store generates, as its 24 hex characters (n < 10).
ObjectIdHex(n) == "65a00000000000000000000" \o ToString(n)
\* the strings of the model that are 24 hexadecimal characters
HexStrings == {ObjectIdHex(n) : n \in 1..9}

\* req.params.id: the ids the server can have given out, and a string of another shape
IdInputs ==
    IF backend = "file" THEN {ToString(t) : t \in 0..MaxClock} \cup {"bad-id"}
    ELSE {ObjectIdHex(n) : n \in 1..MaxOids} \cup {"bad-id"}

(***************************************************************************)
(* Storage faults the environment may inject.                              *)
(***************************************************************************)
\* fs.readFile: succeeds (or ENOENT on an absent file), or fails with an I/O error
ReadFaults == {"none", "EIO"}
\* fs.writeFile: succeeds, fails before the file is touched, or fails after truncating it
WriteFaults == {"none", "EACCES", "ENOSPC"}
\* the document store: reachable or not
DbFaults == {"none", "down"}

(***************************************************************************)
(* The file-backed store (src/server.js).  A file is absent, holds the     *)
(* JSON text of an array of records, or holds the truncated text an        *)
(* interrupted write left behind.                                          *)
(***************************************************************************)
AbsentFile == [kind |-> "absent", data |-> <<>>]
JsonFile(recs) == [kind |-> "json", data |-> recs]
PartialFile == [kind |-> "partial", data |-> <<>>]

\* the fields the handlers set themselves, always strings
PlainFields == {"id", "_id", "status", "createdAt", "updatedAt"}

\* JSON.stringify of a record and of an array of records
JsonRecord(r) == [f \in DOMAIN r |-> IF f \in PlainFields THEN r[f] ELSE JsonValue(r[f])]
JsonStringify(recs) == [i \in 1..Len(recs) |-> JsonRecord(recs[i])]

\* fs.readFile: the error it throws ("none": it returns the content)
ReadFileError(file, rf) ==
    IF rf # "none" THEN rf
    ELSE IF file.kind = "absent" THEN "ENOENT"
    ELSE "none"

\* JSON.parse of a file's text: only a completely written array parses
JsonParses(file) == file.kind = "json"

\* The error readData catches ("none": it returns the parsed file).
ReadDataError(file, rf) ==
    IF ReadFileError(file, rf) # "none" THEN ReadFileError(file, rf)
    ELSE IF ~JsonParses(file) THEN "SyntaxError"
    ELSE "none"

\* readData(filePath): the parsed file, or defaultValue = [] on any error
ReadData(file, rf) == IF ReadDataError(file, rf) = "none" THEN file.data ELSE <<>>

\* writeData(filePath, data): the file it leaves, and the error it throws
WriteDataFile(file, data, wf) ==
    CASE wf = "none" -> JsonFile(JsonStringify(data))
      [] wf = "EACCES" -> file
      [] wf = "ENOSPC" -> PartialFile

(***************************************************************************)
(* Validation and record construction, shared by both servers.             *)
(***************************************************************************)
\* !type || !location || !description, and !name || !lat || !lng
MissingRequired(c, body) ==
    IF c = "reports"
    THEN Falsy(body.type) \/ Falsy(body.location) \/ Falsy(body.description)
    ELSE Falsy(body.name) \/ Falsy(body.lat) \/ Falsy(body.lng)

StatusValues == {"pending", "reviewed", "resolved"}

\* the validation without the includes test: any status that is present is let through
InvalidStatus_PresenceOnly(status) == Falsy(status)

\* !status || !['pending', 'reviewed', 'resolved'].includes(status)
InvalidStatus(status) == Falsy(status) \/ ~(status.t = "string" /\ status.v \in StatusValues)

\* the fields of newReport / newCoordinate taken from the body
ReportFields(body) ==
    [type |-> body.type, location |-> body.location,
     coordinates |-> OrDefault(body.coordinates, Str("")),
     description |-> body.description,
     severity |-> OrDefault(body.severity, Str("medium")),
     email |-> OrDefault(body.email, Str("")),
     phone |-> OrDefault(body.phone, Str(""))]

CoordinateFields(body) ==
    [name |-> body.name, lat |-> ParseFloat(body.lat), lng |-> ParseFloat(body.lng),
     transparency |-> ParseFloatOrNull(body.transparency),
     temperature |-> ParseFloatOrNull(body.temperature),
     conductivity |-> ParseFloatOrNull(body.conductivity),
     waterlevel |-> ParseFloatOrNull(body.waterlevel),
     pathogens |-> OrDefault(body.pathogens, Str("Unknown")),
     description |-> OrDefault(body.description, Str(""))]

BodyFields(c, body) == IF c = "reports" THEN ReportFields(body) ELSE CoordinateFields(body)

\* record r extended with the fields of record s
Extend(r, s) == [f \in DOMAIN r \cup DOMAIN s |-> IF f \in DOMAIN s THEN s[f] ELSE r[f]]

\* newReport / newCoordinate of the file server: the clock is read three times
NewFileRecord(c, body, tId, tCreated, tUpdated) ==
    Extend(BodyFields(c, body),
           [id |-> ToString(tId), status |-> "pending",
            createdAt |-> ToISOString(tCreated), updatedAt |-> ToISOString(tUpdated)])

\* reports.unshift(newReport)
Unshift(recs, r) == <<r>> \o recs

\* reports.findIndex(report => report.id === id): 0 stands for -1
FindIndex(recs, id) ==
    IF \E i \in 1..Len(recs) : recs[i].id = id
    THEN CHOOSE i \in 1..Len(recs) : recs[i].id = id /\ \A j \in 1..(i - 1) : recs[j].id # id
    ELSE 0

\* the update stamping createdAt as well as updatedAt
SetStatusAt_StampsCreatedAt(recs, i, status, tUpdated) ==
    [recs EXCEPT ![i].status = status, ![i].updatedAt = ToISOString(tUpdated),
                 ![i].createdAt = ToISOString(tUpdated)]

\* reports[reportIndex].status = status; reports[reportIndex].updatedAt = ...
SetStatusAt(recs, i, status, tUpdated) ==
    [recs EXCEPT ![i].status = status, ![i].updatedAt = ToISOString(tUpdated)]

\* reports.filter(report => report.id !== id)
FilterOut(recs, id) == SelectSeq(recs, LAMBDA r : r.id # id)

(***************************************************************************)
(* The record of a request and its response.                               *)
(***************************************************************************)
NoRecord == [t |-> "none"]

Response(op, c, id, status, body, code, report, list, reads, writes, readErr, writeErr) ==
    [op |-> op, coll |-> c, id |-> id, status |-> status, body |-> body, code |-> code,
     report |-> report, list |-> list, reads |-> reads, writes |-> writes,
     readErr |-> readErr, writeErr |-> writeErr, storage |-> "any"]

NoRequest == Response("NONE", "", "", Undef, Undef, 0, NoRecord, <<>>, 0, 0, "none", "none")

\* no request is being handled: requests are handled one after the other
Idle == last = NoRequest

\* the response of GET /health; storage is the state of the backend when it was asked
HealthResponse(code, probes, storage) ==
    [Response("HEALTH", "", "", Undef, Undef, code, NoRecord, <<>>, probes, 0, "none", "none")
        EXCEPT !.storage = storage]

\* the number of records the two collections hold together
StoredCount ==
    Len(files["reports"].data) + Len(files["coordinates"].data) + Len(db["reports"]) + Len(db["coordinates"])

\* A create answered 201 is logged, newest first.  The log of a collection ends with the
\* first delete that reaches its storage and with the first fault its file meets.
Logged(c, rec) == [createdLog EXCEPT ![c].recs = IF createdLog[c].ok THEN Unshift(@, rec) ELSE @]
LogEnded(c) == [createdLog EXCEPT ![c] = [ok |-> FALSE, recs |-> <<>>]]
Faulty(readErr, writeErr) == readErr \in {"EIO", "SyntaxError"} \/ writeErr # "none"
LogAfter(c, readErr, writeErr, log) == IF Faulty(readErr, writeErr) THEN LogEnded(c) ELSE log

\* the status code the handler answers after writeData
AfterWrite(wf, success) == IF wf = "none" THEN success ELSE 500

(***************************************************************************)
(* The handlers of the file-backed server (src/server.js).  RF and WF are  *)
(* the faults the handler's file read and file write may meet.             *)
(***************************************************************************)
\* app.get('/api/reports') and app.get('/api/coordinates')
FileGet(c, RF) ==
    /\ backend = "file"
    /\ Idle
    /\ dirExists' = TRUE
    /\ \E rf \in RF :
        /\ last' = Response("GET", c, "", Undef, Undef, 200, NoRecord, ReadData(files[c], rf),
                            1, 0, ReadDataError(files[c], rf), "none")
        /\ createdLog' = LogAfter(c, ReadDataError(files[c], rf), "none", createdLog)
    /\ UNCHANGED <<backend, files, db, nextOid, now>>

\* app.post('/api/reports') and app.post('/api/coordinates')
FilePost(c, body, RF, WF) ==
    /\ backend = "file"
    /\ Idle
    /\ IF MissingRequired(c, body)
       THEN /\ last' = Response("POST", c, "", Undef, body, 400, NoRecord, <<>>, 0, 0, "none", "none")
            /\ UNCHANGED <<dirExists, files, now, createdLog>>
       ELSE \E rf \in RF, wf \in WF :
            \E tId \in ClockAfter(now) : \E tCreated \in ClockAfter(tId) : \E tUpdated \in ClockAfter(tCreated) :
            LET reports == ReadData(files[c], rf)
                newRecord == NewFileRecord(c, body, tId, tCreated, tUpdated)
                code == AfterWrite(wf, 201)
            IN  /\ StoredCount < MaxRecords
                /\ dirExists' = TRUE
                /\ files' = [files EXCEPT ![c] = WriteDataFile(@, Unshift(reports, newRecord), wf)]
                /\ now' = tUpdated
                /\ createdLog' = LogAfter(c, ReadDataError(files[c], rf), wf, Logged(c, JsonRecord(newRecord)))
                /\ last' = Response("POST", c, "", Undef, body, code,
                                    IF code = 201 THEN JsonRecord(newRecord) ELSE NoRecord, <<>>,
                                    1, 1, ReadDataError(files[c], rf), wf)
    /\ UNCHANGED <<backend, db, nextOid>>

\* app.put('/api/reports/:id') and app.put('/api/coordinates/:id')
FilePut(c, id, status, RF, WF) ==
    /\ backend = "file"
    /\ Idle
    /\ IF InvalidStatus(status)
       THEN /\ last' = Response("PUT", c, id, status, Undef, 400, NoRecord, <<>>, 0, 0, "none", "none")
            /\ UNCHANGED <<dirExists, files, now, createdLog>>
       ELSE \E rf \in RF :
            LET reports == ReadData(files[c], rf)
                reportIndex == FindIndex(reports, id)
            IN  IF reportIndex = 0
                THEN /\ dirExists' = TRUE
                     /\ last' = Response("PUT", c, id, status, Undef, 404, NoRecord, <<>>,
                                         1, 0, ReadDataError(files[c], rf), "none")
                     /\ createdLog' = LogAfter(c, ReadDataError(files[c], rf), "none", createdLog)
                     /\ UNCHANGED <<files, now>>
                ELSE \E wf \in WF, tUpdated \in ClockAfter(now) :
                     LET updated == SetStatusAt(reports, reportIndex, status.v, tUpdated)
                         code == AfterWrite(wf, 200)
                     IN  /\ dirExists' = TRUE
                         /\ files' = [files EXCEPT ![c] = WriteDataFile(@, updated, wf)]
                         /\ now' = tUpdated
                         /\ last' = Response("PUT", c, id, status, Undef, code,
                                             IF code = 200 THEN JsonRecord(updated[reportIndex]) ELSE NoRecord,
                                             <<>>, 1, 1, ReadDataError(files[c], rf), wf)
                         /\ createdLog' = LogAfter(c, ReadDataError(files[c], rf), wf, createdLog)
    /\ UNCHANGED <<backend, db, nextOid>>

\* app.delete('/api/reports/:id') and app.delete('/api/coordinates/:id')
FileDelete(c, id, RF, WF) ==
    /\ backend = "file"
    /\ Idle
    /\ dirExists' = TRUE
    /\ \E rf \in RF :
       LET reports == ReadData(files[c], rf)
           filteredReports == FilterOut(reports, id)
       IN  IF Len(reports) = Len(filteredReports)
           THEN /\ last' = Response("DELETE", c, id, Undef, Undef, 404, NoRecord, <<>>,
                                    1, 0, ReadDataError(files[c], rf), "none")
                /\ createdLog' = LogAfter(c, ReadDataError(files[c], rf), "none", createdLog)
                /\ UNCHANGED files
           ELSE \E wf \in WF :
                /\ files' = [files EXCEPT ![c] = WriteDataFile(@, filteredReports, wf)]
                /\ createdLog' = LogEnded(c)
                /\ last' = Response("DELETE", c, id, Undef, Undef, AfterWrite(wf, 200), NoRecord, <<>>,
                                    1, 1, ReadDataError(files[c], rf), wf)
    /\ UNCHANGED <<backend, db, nextOid, now>>

\* app.get('/health'): no storage access; sf is the state of the data directory
FileHealth(RF) ==
    /\ backend = "file"
    /\ Idle
    /\ \E rf \in RF : last' = HealthResponse(200, 0, IF rf = "none" THEN "up" ELSE "down")
    /\ UNCHANGED <<backend, dirExists, files, db, nextOid, now, createdLog>>

(***************************************************************************)
(* The document store and the handlers of the document-store server        *)
(* (src/unnamed/part_000, lines 1-305).  DF are the faults the handler's   *)
(* one database operation may meet.                                        *)
(***************************************************************************)
\* new ObjectId(id) accepts a string of 24 hexadecimal characters and throws on any other
ObjectIdValid(id) == Len(id) = 24 /\ id \in HexStrings

\* newReport / newCoordinate of the document-store server, with the inserted _id
NewDocument(c, body, oid, tCreated, tUpdated) ==
    Extend(BodyFields(c, body),
           [_id |-> oid, status |-> "pending", createdAt |-> tCreated, updatedAt |-> tUpdated])

\* the documents a filter { _id: ObjectId(id) } matches
Matching(docs, id) == {i \in 1..Len(docs) : docs[i]._id = id}

\* find({}).sort({ createdAt: -1 }).toArray(): the documents by createdAt descending;
\* documents with equal createdAt come in any order
SortedByCreatedAtDesc(docs) ==
    LET n == Len(docs)
        perms == {p \in [1..n -> 1..n] : \A i, j \in 1..n : i # j => p[i] # p[j]}
    IN  { [i \in 1..n |-> docs[p[i]]] :
            p \in {q \in perms : \A i, j \in 1..n : i < j => docs[q[i]].createdAt >= docs[q[j]].createdAt} }

\* updateOne(filter, { $set: { status, updatedAt } })
UpdateOne(docs, id, status, tUpdated) ==
    [i \in 1..Len(docs) |->
        IF docs[i]._id = id THEN [docs[i] EXCEPT !.status = status, !.updatedAt = tUpdated]
        ELSE docs[i]]

\* deleteOne(filter)
DeleteOne(docs, id) == SelectSeq(docs, LAMBDA d : d._id # id)

\* app.get('/api/reports') and app.get('/api/coordinates')
MongoGet(c, DF) ==
    /\ backend = "mongo"
    /\ Idle
    /\ \E df \in DF :
       IF df # "none"
       THEN last' = Response("GET", c, "", Undef, Undef, 500, NoRecord, <<>>, 1, 0, df, "none")
       ELSE \E all \in SortedByCreatedAtDesc(db[c]) :
            last' = Response("GET", c, "", Undef, Undef, 200, NoRecord, JsonStringify(all), 1, 0, "none", "none")
    /\ UNCHANGED <<backend, dirExists, files, db, nextOid, now, createdLog>>

\* app.post('/api/reports') and app.post('/api/coordinates')
MongoPost(c, body, DF) ==
    /\ backend = "mongo"
    /\ Idle
    /\ IF MissingRequired(c, body)
       THEN /\ last' = Response("POST", c, "", Undef, body, 400, NoRecord, <<>>, 0, 0, "none", "none")
            /\ UNCHANGED <<db, nextOid, now, createdLog>>
       ELSE \E df \in DF : \E tCreated \in ClockAfter(now) : \E tUpdated \in ClockAfter(tCreated) :
            LET newDocument == NewDocument(c, body, ObjectIdHex(nextOid), tCreated, tUpdated)
            IN  /\ StoredCount < MaxRecords
                /\ nextOid <= MaxOids
                /\ now' = tUpdated
                /\ IF df # "none"
                   THEN /\ last' = Response("POST", c, "", Undef, body, 500, NoRecord, <<>>, 0, 1, "none", df)
                        /\ UNCHANGED <<db, nextOid, createdLog>>
                   ELSE /\ db' = [db EXCEPT ![c] = Append(@, newDocument)]
                        /\ nextOid' = nextOid + 1
                        /\ createdLog' = Logged(c, JsonRecord(newDocument))
                        /\ last' = Response("POST", c, "", Undef, body, 201, JsonRecord(newDocument), <<>>,
                                            0, 1, "none", "none")
    /\ UNCHANGED <<backend, dirExists, files>>

\* app.put('/api/reports/:id') and app.put('/api/coordinates/:id')
MongoPut(c, id, status, DF) ==
    /\ backend = "mongo"
    /\ Idle
    /\ IF InvalidStatus(status)
       THEN /\ last' = Response("PUT", c, id, status, Undef, 400, NoRecord, <<>>, 0, 0, "none", "none")
            /\ UNCHANGED <<db, now>>
       ELSE IF ~ObjectIdValid(id)
       THEN /\ last' = Response("PUT", c, id, status, Undef, 500, NoRecord, <<>>, 0, 0, "none", "none")
            /\ UNCHANGED <<db, now>>
       ELSE \E df \in DF, tUpdated \in ClockAfter(now) :
            /\ now' = tUpdated
            /\ IF df # "none"
               THEN /\ last' = Response("PUT", c, id, status, Undef, 500, NoRecord, <<>>, 0, 1, "none", df)
                    /\ UNCHANGED db
               ELSE /\ db' = [db EXCEPT ![c] = UpdateOne(@, id, status.v, tUpdated)]
                    /\ last' = Response("PUT", c, id, status, Undef,
                                        IF Matching(db[c], id) = {} THEN 404 ELSE 200,
                                        NoRecord, <<>>, 0, 1, "none", "none")
    /\ UNCHANGED <<backend, dirExists, files, nextOid, createdLog>>

\* app.delete('/api/reports/:id') and app.delete('/api/coordinates/:id')
MongoDelete(c, id, DF) ==
    /\ backend = "mongo"
    /\ Idle
    /\ IF ~ObjectIdValid(id)
       THEN /\ last' = Response("DELETE", c, id, Undef, Undef, 500, NoRecord, <<>>, 0, 0, "none", "none")
            /\ UNCHANGED <<db, createdLog>>
       ELSE \E df \in DF :
            IF df # "none"
            THEN /\ last' = Response("DELETE", c, id, Undef, Undef, 500, NoRecord, <<>>, 0, 1, "none", df)
                 /\ UNCHANGED <<db, createdLog>>
            ELSE
            /\ db' = [db EXCEPT ![c] = DeleteOne(@, id)]
            /\ createdLog' = IF Matching(db[c], id) = {} THEN createdLog ELSE LogEnded(c)
            /\ last' = Response("DELETE", c, id, Undef, Undef,
                                IF Matching(db[c], id) = {} THEN 404 ELSE 200,
                                NoRecord, <<>>, 0, 1, "none", "none")
    /\ UNCHANGED <<backend, dirExists, files, nextOid, now>>

\* app.get('/health'): pings the database
MongoHealth(DF) ==
    /\ backend = "mongo"
    /\ Idle
    /\ \E df \in DF : last' = HealthResponse(IF df = "none" THEN 200 ELSE 500, 1, IF df = "none" THEN "up" ELSE "down")
    /\ UNCHANGED <<backend, dirExists, files, db, nextOid, now, createdLog>>

(***************************************************************************)
(* The specifications of the started server handling one request at a      *)
(* time: Spec with storage faults, SpecReliable without.                   *)
(***************************************************************************)
\* the storage, the clock and the histories when the process starts
InitState ==
    /\ backend \in {"file", "mongo"}
    /\ dirExists = FALSE
    /\ files = [c \in Coll |-> AbsentFile]
    /\ db = [c \in Coll |-> <<>>]
    /\ nextOid = 1
    /\ now = 0
    /\ createdLog = [c \in Coll |-> [ok |-> TRUE, recs |-> <<>>]]
    /\ last = NoRequest
    /\ inflight = [h \in {} |-> 0]
    /\ deleted = [c \in Coll |-> {}]

\* the server has started: the document-store server has connected
Init ==
    /\ InitState
    /\ client = IF backend = "mongo" THEN "connected" ELSE "none"

\* res.json(...): the response leaves the server, which is ready for the next request
SendResponse ==
    /\ ~Idle
    /\ last' = NoRequest
    /\ UNCHANGED <<backend, dirExists, files, db, nextOid, now, createdLog>>

\* a handler run from the request to its response, no other handler suspended
Serving(A) == A /\ UNCHANGED <<client, inflight, deleted>>

Requests(RF, WF, DF) ==
    \/ Serving(SendResponse)
    \/ \E c \in Coll : Serving(FileGet(c, RF))
    \/ \E c \in Coll : \E body \in Bodies(c) : Serving(FilePost(c, body, RF, WF))
    \/ \E c \in Coll, id \in IdInputs, status \in StatusInputs : Serving(FilePut(c, id, status, RF, WF))
    \/ \E c \in Coll, id \in IdInputs : Serving(FileDelete(c, id, RF, WF))
    \/ Serving(FileHealth(RF))
    \/ \E c \in Coll : Serving(MongoGet(c, DF))
    \/ \E c \in Coll : \E body \in Bodies(c) : Serving(MongoPost(c, body, DF))
    \/ \E c \in Coll, id \in IdInputs, status \in StatusInputs : Serving(MongoPut(c, id, status, DF))
    \/ \E c \in Coll, id \in IdInputs : Serving(MongoDelete(c, id, DF))
    \/ Serving(MongoHealth(DF))

Next == Requests(ReadFaults, WriteFaults, DbFaults)

Spec == Init /\ [][Next]_vars

NextReliable == Requests({"none"}, {"none"}, {"none"})

SpecReliable == Init /\ [][NextReliable]_vars

(***************************************************************************)
(* The document-store server from the start of its process                 *)
(* (src/unnamed/part_000).  connectToDatabase() is called and not awaited, *)
(* app.listen follows in the same turn: the routes answer while the client *)
(* is connecting.  A handler's database operation then succeeds or fails   *)
(* as the deployment is reachable or not.                                  *)
(***************************************************************************)
InitStartup ==
    /\ InitState
    /\ backend = "mongo"
    /\ client = "connecting"

\* await client.connect() and the ping succeed
ConnectSucceeds ==
    /\ client = "connecting"
    /\ Idle
    /\ client' = "connected"
    /\ UNCHANGED <<backend, dirExists, files, db, nextOid, now, createdLog, last, inflight, deleted>>

\* client.connect() or the ping throws: the catch calls process.exit(1)
ConnectFails ==
    /\ client = "connecting"
    /\ Idle
    /\ client' = "exited"
    /\ UNCHANGED <<backend, dirExists, files, db, nextOid, now, createdLog, last, inflight, deleted>>

\* the routes, served while the process lives
Listening(A) ==
    /\ client # "exited"
    /\ Serving(A)

NextStartup ==
    \/ ConnectSucceeds
    \/ ConnectFails
    \/ Listening(SendResponse)
    \/ \E c \in Coll : Listening(MongoGet(c, DbFaults))
    \/ \E c \in Coll : \E body \in Bodies(c) : Listening(MongoPost(c, body, DbFaults))
    \/ \E c \in Coll, id \in IdInputs, status \in StatusInputs : Listening(MongoPut(c, id, status, DbFaults))
    \/ \E c \in Coll, id \in IdInputs : Listening(MongoDelete(c, id, DbFaults))
    \/ Listening(MongoHealth(DbFaults))

SpecStartup == InitStartup /\ [][NextStartup]_vars

(***************************************************************************)
(* The file-backed server with interleaved handlers (src/server.js).  A    *)
(* handler runs without interruption between two awaits.  A mutating       *)
(* handler is suspended in await readData and again in await writeData:    *)
(* its first step here runs from the file read to the call of writeData,   *)
(* its second step is the file write and the response.  Other handlers run *)
(* in between.  The storage works, fs.writeFile replaces the file in one   *)
(* step, and the clock does not tick between the reads of one turn.        *)
(***************************************************************************)
\* a later read of the clock in the same uninterrupted turn
ClockSameTurn(t) == {t}

\* the handler writing to the file of the other collection
Handler_OtherFile(op, c, id, status, body, data, report) ==
    [op |-> op, coll |-> IF c = "reports" THEN "coordinates" ELSE "reports", id |-> id, status |-> status,
     body |-> body, data |-> data, report |-> report]

\* a handler suspended at await writeData(file, data)
Handler(op, c, id, status, body, data, report) ==
    [op |-> op, coll |-> c, id |-> id, status |-> status, body |-> body, data |-> data, report |-> report]

\* the number of suspended handlers among those of H
RECURSIVE SuspendedCount(_)
SuspendedCount(H) ==
    IF H = {} THEN 0
    ELSE LET h == CHOOSE g \in H : TRUE IN inflight[h] + SuspendedCount(H \ {h})

\* the handler suspends at await writeData; another one can be taken on
Suspended(h) ==
    [g \in DOMAIN inflight \cup {h} |-> IF g = h THEN (IF h \in DOMAIN inflight THEN inflight[h] + 1 ELSE 1)
                                         ELSE inflight[g]]
Resumed(h) ==
    [g \in (IF inflight[h] = 1 THEN DOMAIN inflight \ {h} ELSE DOMAIN inflight) |->
        IF g = h THEN inflight[h] - 1 ELSE inflight[g]]
CanSuspend == SuspendedCount(DOMAIN inflight) < MaxInflight

\* the creates suspended before their write, and the creates the logs hold
PendingCreates == SuspendedCount({h \in DOMAIN inflight : h.op = "POST"})
LoggedCreates == Len(createdLog["reports"].recs) + Len(createdLog["coordinates"].recs)

\* app.post up to await writeData: validation, readData, newReport, unshift
PostReads(c, body) ==
    /\ backend = "file"
    /\ Idle
    /\ IF MissingRequired(c, body)
       THEN /\ last' = Response("POST", c, "", Undef, body, 400, NoRecord, <<>>, 0, 0, "none", "none")
            /\ UNCHANGED <<dirExists, now, inflight>>
       ELSE \E tId \in ClockAfter(now) : \E tCreated \in ClockSameTurn(tId) : \E tUpdated \in ClockSameTurn(tCreated) :
            LET reports == ReadData(files[c], "none")
                newRecord == NewFileRecord(c, body, tId, tCreated, tUpdated)
            IN  /\ CanSuspend
                /\ StoredCount + PendingCreates < MaxRecords
                /\ LoggedCreates + PendingCreates < MaxRecords
                /\ dirExists' = TRUE
                /\ now' = tUpdated
                /\ inflight' = Suspended(Handler("POST", c, "", Undef, body, Unshift(reports, newRecord), newRecord))
                /\ UNCHANGED last
    /\ UNCHANGED <<backend, files, db, nextOid, createdLog, client, deleted>>

\* app.put up to await writeData: validation, readData, findIndex, the two assignments
PutReads(c, id, status) ==
    /\ backend = "file"
    /\ Idle
    /\ IF InvalidStatus(status)
       THEN /\ last' = Response("PUT", c, id, status, Undef, 400, NoRecord, <<>>, 0, 0, "none", "none")
            /\ UNCHANGED <<dirExists, now, inflight>>
       ELSE LET reports == ReadData(files[c], "none")
                reportIndex == FindIndex(reports, id)
            IN  IF reportIndex = 0
                THEN /\ dirExists' = TRUE
                     /\ last' = Response("PUT", c, id, status, Undef, 404, NoRecord, <<>>, 1, 0,
                                         ReadDataError(files[c], "none"), "none")
                     /\ UNCHANGED <<now, inflight>>
                ELSE \E tUpdated \in ClockAfter(now) :
                     LET updated == SetStatusAt(reports, reportIndex, status.v, tUpdated)
                     IN  /\ CanSuspend
                         /\ dirExists' = TRUE
                         /\ now' = tUpdated
                         /\ inflight' = Suspended(Handler("PUT", c, id, status, Undef, updated, updated[reportIndex]))
                         /\ UNCHANGED last
    /\ UNCHANGED <<backend, files, db, nextOid, createdLog, client, deleted>>

\* app.delete up to await writeData: readData, filter, the length test
DeleteReads(c, id) ==
    /\ backend = "file"
    /\ Idle
    /\ dirExists' = TRUE
    /\ LET reports == ReadData(files[c], "none")
           filteredReports == FilterOut(reports, id)
       IN  IF Len(reports) = Len(filteredReports)
           THEN /\ last' = Response("DELETE", c, id, Undef, Undef, 404, NoRecord, <<>>, 1, 0,
                                    ReadDataError(files[c], "none"), "none")
                /\ UNCHANGED inflight
           ELSE /\ CanSuspend
                /\ inflight' = Suspended(Handler("DELETE", c, id, Undef, Undef, filteredReports, NoRecord))
                /\ UNCHANGED last
    /\ UNCHANGED <<backend, files, db, nextOid, now, createdLog, client, deleted>>

\* the ids deleted and not created since, after the write of handler h
DeletedAfter(h) ==
    CASE h.op = "DELETE" -> [deleted EXCEPT ![h.coll] = @ \cup {h.id}]
      [] h.op = "POST" -> [deleted EXCEPT ![h.coll] = @ \ {h.report.id}]
      [] OTHER -> deleted

\* await writeData(file, data) of the suspended handler h, and its response
Writes(h) ==
    /\ backend = "file"
    /\ Idle
    /\ h \in DOMAIN inflight
    /\ files' = [files EXCEPT ![h.coll] = WriteDataFile(@, h.data, "none")]
    /\ last' = Response(h.op, h.coll, h.id, h.status, h.body, IF h.op = "POST" THEN 201 ELSE 200,
                        IF h.op = "DELETE" THEN NoRecord ELSE JsonRecord(h.report), <<>>,
                        1, 1, "none", "none")
    /\ createdLog' = CASE h.op = "POST" -> Logged(h.coll, JsonRecord(h.report))
                        [] h.op = "DELETE" -> LogEnded(h.coll)
                        [] OTHER -> createdLog
    /\ deleted' = DeletedAfter(h)
    /\ inflight' = Resumed(h)
    /\ UNCHANGED <<backend, dirExists, db, nextOid, now, client>>

\* The requests of the interleaved server pass validation, and a PUT or DELETE names a
\* record of the file: the rejected requests touch no file.
ValidBodies(c) == {body \in Bodies(c) : ~MissingRequired(c, body)}
ValidStatusInputs == {status \in StatusInputs : ~InvalidStatus(status)}
StoredIds(c) == {files[c].data[i].id : i \in 1..Len(files[c].data)}

\* no handler is suspended
Quiescent == DOMAIN inflight = {}

\* app.get reads the file in one step; a list is asked for once the mutations are answered
GetReads(c) == Quiescent /\ Serving(FileGet(c, {"none"}))

NextConcurrent ==
    \/ Serving(SendResponse)
    \/ \E c \in Coll : GetReads(c)
    \/ \E c \in Coll : \E body \in ValidBodies(c) : PostReads(c, body)
    \/ \E c \in Coll : \E id \in StoredIds(c), status \in ValidStatusInputs : PutReads(c, id, status)
    \/ \E c \in Coll : \E id \in StoredIds(c) : DeleteReads(c, id)
    \/ \E h \in DOMAIN inflight : Writes(h)

InitConcurrent ==
    /\ Init
    /\ backend = "file"

SpecConcurrent == InitConcurrent /\ [][NextConcurrent]_vars

(***************************************************************************)
(* Vocabulary of the properties.                                           *)
(***************************************************************************)
Mutations == {"POST", "PUT", "DELETE"}

\* the collection a GET list returns when its read succeeds
Listing(c) == IF backend = "file" THEN ReadData(files[c], "none") ELSE db[c]

\* the id a stored record is addressed by
IdOf(r) == IF "id" \in DOMAIN r THEN r.id ELSE r._id

\* a record without the two fields a status update changes
Unstamped(r) == [f \in DOMAIN r \ {"status", "updatedAt"} |-> r[f]]
UnstampedAll(recs) == [i \in 1..Len(recs) |-> Unstamped(recs[i])]

\* a required field is missing from the body
RequiredMissing(c, body) ==
    IF c = "reports"
    THEN Undef \in {body.type, body.location, body.description}
    ELSE Undef \in {body.name, body.lat, body.lng}

\* the status of a PUT body is missing or outside the three values
OutsideStatusValues(status) == status.t # "string" \/ status.v \notin {"pending", "reviewed", "resolved"}

(***************************************************************************)
(* C1.  File-backed server: when a storage step of a create, status update *)
(* or delete fails (the read of readData or the write of writeData), the   *)
(* request is answered 500 and every collection lists afterwards what it   *)
(* listed before the request.                                              *)
(***************************************************************************)
C1_FailedMutationAbortsCleanly ==
    [][ (backend = "file" /\ last'.op \in Mutations /\ Faulty(last'.readErr, last'.writeErr))
        => /\ last'.code = 500
           /\ \A c \in Coll : ReadData(files'[c], "none") = ReadData(files[c], "none") ]_vars

(***************************************************************************)
(* C2.  File-backed server: no two records of a collection file have the   *)
(* same id, and a PUT leaves the ids of the stored records as they were.   *)
(***************************************************************************)
UniqueIds(recs) == \A i, j \in 1..Len(recs) : i # j => recs[i].id # recs[j].id

C2_IdsUniqueAndImmutable ==
    [][ backend = "file"
        => /\ \A c \in Coll : UniqueIds(files'[c].data)
           /\ last'.op = "PUT" /\ last'.code = 200
              => [i \in 1..Len(files'[last'.coll].data) |-> files'[last'.coll].data[i].id]
                 = [i \in 1..Len(files[last'.coll].data) |-> files[last'.coll].data[i].id] ]_vars

(***************************************************************************)
(* C3.  After N creates answered 201 on a collection that started empty    *)
(* and saw no delete, GET list returns exactly those N records, the most   *)
(* recently created first, on both servers.                                *)
(***************************************************************************)
C3_ListNewestFirst ==
    (last.op = "GET" /\ last.code = 200 /\ createdLog[last.coll].ok)
    => UnstampedAll(last.list) = UnstampedAll(createdLog[last.coll].recs)

(***************************************************************************)
(* C4.  On both servers a PUT with a valid status and a DELETE, for an id  *)
(* that matches no stored record, are answered 404 and leave the           *)
(* collections unchanged.                                                  *)
(***************************************************************************)
Unmatched(c, id) == \A i \in 1..Len(Listing(c)) : IdOf(Listing(c)[i]) # id

C4_UnknownIdNotFound ==
    [][ ( /\ last'.op \in {"PUT", "DELETE"}
          /\ last'.op = "PUT" => ~OutsideStatusValues(last'.status)
          /\ Unmatched(last'.coll, last'.id) )
        => /\ last'.code = 404
           /\ files' = files
           /\ db' = db ]_vars

(***************************************************************************)
(* C5.  A PUT whose status is missing or outside {pending, reviewed,       *)
(* resolved} is answered 400 and performs no storage read or write: the    *)
(* stored collections are the same before and after, whether or not the id *)
(* exists.                                                                 *)
(***************************************************************************)
C5_InvalidStatusRejected ==
    [][ (last'.op = "PUT" /\ OutsideStatusValues(last'.status))
        => /\ last'.code = 400
           /\ last'.reads = 0 /\ last'.writes = 0
           /\ files' = files /\ db' = db /\ dirExists' = dirExists ]_vars

\* a PUT with an invalid status was rejected while its target is stored, already reviewed
C5_Witness ==
    /\ last.op = "PUT" /\ last.code = 400 /\ last.status = Str("done")
    /\ \E i \in 1..Len(Listing(last.coll)) :
         IdOf(Listing(last.coll)[i]) = last.id /\ Listing(last.coll)[i].status = "reviewed"

(***************************************************************************)
(* C6.  The record of every create answered 201 has status pending and     *)
(* createdAt equal to updatedAt.                                           *)
(***************************************************************************)
C6_CreatedPendingSameStamps ==
    (last.op = "POST" /\ last.code = 201)
    => last.report.status = "pending" /\ last.report.createdAt = last.report.updatedAt

(***************************************************************************)
(* C7.  File-backed server: a PUT answered 200 on id X changes only the    *)
(* status and updatedAt of the record with id X; its other fields, the     *)
(* other records, their number and order, and the other collection's file  *)
(* are as before.                                                          *)
(***************************************************************************)
C7_PutChangesOnlyStatusAndStamp ==
    [][ (backend = "file" /\ last'.op = "PUT" /\ last'.code = 200)
        => LET c == last'.coll
               before == files[c].data
               after == files'[c].data
           IN  /\ files[c].kind = "json" /\ files'[c].kind = "json"
               /\ Len(after) = Len(before)
               /\ \E i \in 1..Len(before) :
                    /\ before[i].id = last'.id
                    /\ after[i].status = last'.status.v
                    /\ Unstamped(after[i]) = Unstamped(before[i])
                    /\ DOMAIN after[i] = DOMAIN before[i]
                    /\ \A j \in 1..Len(before) : j # i => after[j] = before[j]
               /\ \A d \in Coll \ {c} : files'[d] = files[d] ]_vars

\* a PUT was answered 200 for the older of two stored records, the other collection
\* holding nothing
C7_Witness ==
    /\ backend = "file" /\ last.op = "PUT" /\ last.code = 200
    /\ Len(files[last.coll].data) = 2
    /\ files[last.coll].data[2].id = last.id
    /\ files[last.coll].data[1].id # last.id
    /\ files[last.coll].data[2].status = "reviewed"
    /\ files[last.coll].data[2].updatedAt # files[last.coll].data[2].createdAt

(***************************************************************************)
(* C8.  GET list is answered 200 with the stored collection when the read  *)
(* succeeds and 500 when the read fails or the file cannot be parsed; it   *)
(* never answers 200 with an empty array while records are stored.         *)
(***************************************************************************)
C8_ListSurfacesReadFailure ==
    last.op = "GET"
    => /\ last.readErr \in {"none", "ENOENT"} => last.code = 200 /\ Len(last.list) = Len(Listing(last.coll))
       /\ last.readErr \notin {"none", "ENOENT"} => last.code = 500
       /\ ~(last.code = 200 /\ last.list = <<>> /\ Listing(last.coll) # <<>>)

(***************************************************************************)
(* C9.  A create is answered 400 exactly when a required field is missing  *)
(* from the body, and then stores nothing; a create with all required      *)
(* fields supplied, whatever their values, is answered 201 and stores      *)
(* exactly one new record.                                                 *)
(***************************************************************************)
C9_CreateRejectedIffFieldMissing ==
    [][ last'.op = "POST"
        => IF RequiredMissing(last'.coll, last'.body)
           THEN last'.code = 400 /\ files' = files /\ db' = db
           ELSE last'.code = 201 /\ StoredCount' = StoredCount + 1 ]_vars

(***************************************************************************)
(* C10.  GET /health is answered 200 only when a probe of the storage      *)
(* backend succeeded, and 500 whenever the backend is unreachable, on both *)
(* servers.                                                                *)
(***************************************************************************)
C10_HealthReflectsStorage ==
    last.op = "HEALTH"
    => /\ last.code = 200 => last.storage = "up"
       /\ last.storage = "down" => last.code = 500

(***************************************************************************)
(* C11.  Document-store server: a request handler runs only after          *)
(* connectToDatabase has completed successfully; in particular no request  *)
(* has been handled when a failed connection ends the process.             *)
(***************************************************************************)
C11_NoHandlerBeforeConnected ==
    last.op # "NONE" => client = "connected"

\* sequence a is sequence b with some elements left out
RECURSIVE IsSubsequence(_, _)
IsSubsequence(a, b) ==
    IF a = <<>> THEN TRUE
    ELSE IF b = <<>> THEN FALSE
    ELSE IF Head(a) = Head(b) THEN IsSubsequence(Tail(a), Tail(b))
    ELSE IsSubsequence(a, Tail(b))

\* the record is one of collection c: a report has a type, a coordinate a name
RecordOf(c, r) == IF c = "reports" THEN "type" \in DOMAIN r ELSE "name" \in DOMAIN r

(***************************************************************************)
(* C12.  File-backed server, handlers interleaved: creates answered 201    *)
(* can be missing from a following GET list (the witness), while the list  *)
(* never holds anything but acknowledged creates of its own collection, in *)
(* their order; and a request changes no file but the one of its own       *)
(* collection, whose records are all records of that collection.           *)
(***************************************************************************)
C12_LostUpdateWithinCollectionOnly ==
    /\ []( (last.op = "GET" /\ last.code = 200 /\ createdLog[last.coll].ok)
           => IsSubsequence(UnstampedAll(last.list), UnstampedAll(createdLog[last.coll].recs)) )
    /\ []( \A c \in Coll : \A i \in 1..Len(files[c].data) : RecordOf(c, files[c].data[i]) )
    /\ [][ \A c \in Coll : files'[c] # files[c] => (last'.op \in Mutations /\ last'.coll = c) ]_vars

\* two creates with different ids were answered 201 and the list that follows holds one record
C12_Witness ==
    /\ last.op = "GET" /\ last.code = 200
    /\ createdLog[last.coll].ok
    /\ Len(createdLog[last.coll].recs) = 2
    /\ createdLog[last.coll].recs[1].id # createdLog[last.coll].recs[2].id
    /\ Len(last.list) = 1

\* the places of the records of a list that id addresses
Addressed(recs, id) == {i \in 1..Len(recs) : IdOf(recs[i]) = id}

(***************************************************************************)
(* C13.  Requests handled one at a time, storage working: the id a create  *)
(* answered 201 returns addresses exactly one stored record, equal to the  *)
(* returned one; a GET list holds exactly one record for each id in it; a  *)
(* PUT answered 200 changes the status of one record; a DELETE answered    *)
(* 200 removes exactly one record.                                         *)
(***************************************************************************)
C13_CreatedIdAddressesOneRecord ==
    /\ []( (last.op = "POST" /\ last.code = 201)
           => \E i \in 1..Len(Listing(last.coll)) :
                /\ Addressed(Listing(last.coll), IdOf(last.report)) = {i}
                /\ JsonRecord(Listing(last.coll)[i]) = last.report )
    /\ []( (last.op = "GET" /\ last.code = 200)
           => \A i \in 1..Len(last.list) : Addressed(last.list, IdOf(last.list[i])) = {i} )
    /\ [][ \A c \in Coll :
            /\ (last'.op = "PUT" /\ last'.code = 200 /\ last'.coll = c)
               => Cardinality({i \in 1..Len(Listing(c)) : Listing(c)'[i] # Listing(c)[i]}) <= 1
            /\ (last'.op = "DELETE" /\ last'.code = 200 /\ last'.coll = c)
               => Len(Listing(c)') = Len(Listing(c)) - 1 ]_vars

(***************************************************************************)
(* C14.  File-backed server, handlers interleaved: a GET list holds no     *)
(* record whose id was deleted with 200, unless a create with that id was  *)
(* written after the delete.                                               *)
(***************************************************************************)
C14_DeletedStaysDeleted ==
    (last.op = "GET" /\ last.code = 200)
    => \A i \in 1..Len(last.list) : last.list[i].id \notin deleted[last.coll]

=============================================================================
